---- MODULE Spec2Model ----
(***************************************************************************)
(* Model of twisp/test-runner's suite discovery and ordering code          *)
(* (runner/discovery.go) and of the way runner.go drives it.               *)
(*                                                                         *)
(* Strings are sequences of one-character strings, so that the parsing of  *)
(* a directory name (strings.SplitN, strconv.Atoi), strings.Contains and   *)
(* the byte-wise order of sort.Strings are computed, not assumed.  A path  *)
(* is the sequence of its segments: the relative path "" is << >>.         *)
(***************************************************************************)
EXTENDS Naturals, Integers, Sequences, FiniteSets, TLC

VARIABLES fs, todo, suites, pc, call, ret, rn

vars == <<fs, todo, suites, pc, call, ret, rn>>

(***************************************************************************)
(* Bounds of the model.                                                    *)
(***************************************************************************)
\* number of directories below the suite root
MaxDirs == 2
\* largest limit handed to run as maxSeq
MaxSeqLimit == 1

(***************************************************************************)
(* Characters and strings.                                                 *)
(***************************************************************************)
Code ==
  [c \in {"+", "-", ".", "/", "0", "1", "2", "3", "4", "5", "6", "7", "8", "9",
          "I", "K", "P", "S", "_", "a", "b", "c", "e", "f", "g", "j", "l",
          "m", "n", "o", "p", "q", "r", "s", "t", "u", "v", "w", "x"} |->
     CASE c = "+" -> 43 [] c = "-" -> 45 [] c = "." -> 46 [] c = "/" -> 47
       [] c = "0" -> 48 [] c = "1" -> 49 [] c = "2" -> 50 [] c = "3" -> 51
       [] c = "4" -> 52 [] c = "5" -> 53 [] c = "6" -> 54 [] c = "7" -> 55
       [] c = "8" -> 56 [] c = "9" -> 57
       [] c = "I" -> 73 [] c = "K" -> 75 [] c = "P" -> 80 [] c = "S" -> 83
       [] c = "_" -> 95
       [] c = "a" -> 97 [] c = "b" -> 98 [] c = "c" -> 99 [] c = "e" -> 101
       [] c = "f" -> 102 [] c = "g" -> 103 [] c = "j" -> 106 [] c = "l" -> 108
       [] c = "m" -> 109 [] c = "n" -> 110 [] c = "o" -> 111 [] c = "p" -> 112
       [] c = "q" -> 113 [] c = "r" -> 114 [] c = "s" -> 115 [] c = "t" -> 116
       [] c = "u" -> 117 [] c = "v" -> 118 [] c = "w" -> 119 [] c = "x" -> 120]

Digits == {"0", "1", "2", "3", "4", "5", "6", "7", "8", "9"}

\* byte-wise a < b, as Go compares strings
RECURSIVE StrLess(_, _)
StrLess(a, b) ==
  IF b = << >> THEN FALSE
  ELSE IF a = << >> THEN TRUE
  ELSE IF Code[a[1]] # Code[b[1]] THEN Code[a[1]] < Code[b[1]]
  ELSE StrLess(Tail(a), Tail(b))

\* strings.HasPrefix
HasPrefix(s, p) == Len(s) >= Len(p) /\ SubSeq(s, 1, Len(p)) = p

\* the path string of a sequence of segments: strings.Join(segs, "/")
RECURSIVE JoinPath(_)
JoinPath(segs) ==
  IF segs = << >> THEN << >>
  ELSE IF Len(segs) = 1 THEN segs[1]
  ELSE segs[1] \o <<"/">> \o JoinPath(Tail(segs))

\* sort.Strings on a set of distinct strings
RECURSIVE SortStrings(_)
SortStrings(S) ==
  IF S = {} THEN << >>
  ELSE LET m == CHOOSE x \in S : \A y \in S \ {x} : StrLess(x, y)
       IN  <<m>> \o SortStrings(S \ {m})

(***************************************************************************)
(* The fixture file names and the directory names of the modelled trees.  *)
(***************************************************************************)
RequestGql    == <<"r","e","q","u","e","s","t",".","g","q","l">>
ResponseJson  == <<"r","e","s","p","o","n","s","e",".","j","s","o","n">>
VariablesJson == <<"v","a","r","i","a","b","l","e","s",".","j","s","o","n">>
TransformJq   == <<"t","r","a","n","s","f","o","r","m",".","j","q">>
NotesTxt      == <<"n","o","t","e","s",".","t","x","t">>

SkipMarker == <<"S","K","I","P">>

\* directory names: two with the same token (1_a, 001_b), a larger token,
\* a name without a prefix, and an excluded name
DirNames ==
  { <<"1","_","a">>, <<"0","0","1","_","b">>, <<"2","_","c">>, <<"x">>,
    <<"S","K","I","P","_","s">> }

\* the files a directory of a modelled tree may hold
FileSets ==
  { {}, {RequestGql},
    {NotesTxt, RequestGql, ResponseJson, TransformJq, VariablesJson} }

\* filepath.Abs(suitePath)
AbsRoot == << <<"w">> >>

\* the sets of directories (relative paths) of the trees with at most n
\* directories below the root
RECURSIVE DirSets(_)
DirSets(n) ==
  IF n = 0 THEN { { << >> } }
  ELSE LET prev == DirSets(n - 1)
       IN  prev \cup
           UNION { { D \cup {Append(p, nm)} : p \in D, nm \in DirNames } : D \in prev }

Trees == UNION { [D -> FileSets] : D \in DirSets(MaxDirs) }

(***************************************************************************)
(* filepath.Walk: a directory, then its entries in byte-wise name order,   *)
(* each subdirectory walked in full where it stands.                       *)
(***************************************************************************)
RECURSIVE Walk(_, _), WalkNames(_, _, _)
Walk(tree, d) ==
  LET subdirs == { p[Len(p)] : p \in { q \in DOMAIN tree :
                     Len(q) = Len(d) + 1 /\ SubSeq(q, 1, Len(d)) = d } }
  IN  << [path |-> AbsRoot \o d, isDir |-> TRUE] >>
        \o WalkNames(tree, d, SortStrings(subdirs \cup tree[d]))

WalkNames(tree, d, names) ==
  IF names = << >> THEN << >>
  ELSE (IF Append(d, Head(names)) \in DOMAIN tree
          THEN Walk(tree, Append(d, Head(names)))
          ELSE << [path |-> AbsRoot \o Append(d, Head(names)), isDir |-> FALSE] >>)
       \o WalkNames(tree, d, Tail(names))

(***************************************************************************)
(* Test and Suite values.  A nil *Test is << >> and a set one <<t>>; the   *)
(* empty string is << >>.                                                  *)
(***************************************************************************)
NewSuite(relPath) ==
  [Path |-> relPath, Base |-> << >>, Tests |-> << >>, Children |-> << >>, refs |-> 0]

\* m[k] = v of a Go map
MapPut(m, k, v) == [x \in DOMAIN m \cup {k} |-> IF x = k THEN v ELSE m[x]]

\* IsValid without the test of the response
IsValidRequestOnly(t) == t.Request # << >>

IsValid(t) == t.Request # << >> /\ t.Response # << >>

getParentPath(path) ==
  IF path = << >> THEN << >>
  ELSE IF Len(path) <= 1 THEN << >>
  ELSE SubSeq(path, 1, Len(path) - 1)

\* strconv.Atoi on the names of the model (all far below the int range):
\* an optional sign, then one or more decimal digits; << >> is an error
RECURSIVE DigitsValue(_)
DigitsValue(ds) ==
  IF ds = << >> THEN 0
  ELSE 10 * DigitsValue(SubSeq(ds, 1, Len(ds) - 1)) + (Code[ds[Len(ds)]] - 48)

Atoi(s) ==
  LET signed == s # << >> /\ s[1] \in {"+", "-"}
      ds     == IF signed THEN Tail(s) ELSE s
  IN  IF ds = << >> \/ \E i \in 1..Len(ds) : ds[i] \notin Digits THEN << >>
      ELSE IF signed /\ s[1] = "-" THEN << 0 - DigitsValue(ds) >>
      ELSE << DigitsValue(ds) >>

\* the sequence number of a directory name: strings.SplitN(name, "_", 2),
\* then Atoi of the first part when there are two
ParseSeq(testName) ==
  LET us == { i \in 1..Len(testName) : testName[i] = "_" }
  IN  IF us = {} THEN -1
      ELSE LET first == CHOOSE i \in us : \A j \in us : i <= j
               n     == Atoi(SubSeq(testName, 1, first - 1))
           IN  IF n = << >> THEN -1 ELSE n[1]

\* ContainsSkip looking at the directory of the file only
ContainsSkipInOwnDir(fullPath) ==
  HasPrefix(fullPath[Len(fullPath) - 1], SkipMarker)

\* strings.Contains(fullPath, "/SKIP"): a "/" only starts a segment
ContainsSkip(fullPath) ==
  \E i \in 1..Len(fullPath) : HasPrefix(fullPath[i], SkipMarker)

\* the part of a directory name after its first "_"
AfterUnderscore(name) ==
  LET us == { i \in 1..Len(name) : name[i] = "_" }
  IN  IF us = {} THEN name
      ELSE SubSeq(name, (CHOOSE i \in us : \A j \in us : i <= j) + 1, Len(name))

\* TestName with the sequence prefix taken off
TestNameStripped(dirPath) ==
  IF dirPath = << >> THEN << >> ELSE AfterUnderscore(dirPath[Len(dirPath)])

\* testName: the last part of the directory path, "" at the root
TestName(dirPath) ==
  IF dirPath = << >> THEN << >> ELSE dirPath[Len(dirPath)]

parseTestFile(basePath, fullPath, isDir) ==
  IF isDir THEN << >>
  ELSE IF ContainsSkip(fullPath) THEN << >>
  ELSE
    LET relPath  == SubSeq(fullPath, Len(basePath) + 1, Len(fullPath))
        fileName == relPath[Len(relPath)]
        dirPath  == SubSeq(relPath, 1, Len(relPath) - 1)
        testName == TestName(dirPath)
        test     == [Name |-> testName, Dir |-> dirPath,
                     AbsDir |-> basePath \o dirPath, Seq |-> ParseSeq(testName),
                     Request |-> << >>, Response |-> << >>,
                     Variables |-> << >>, Transform |-> << >>]
    IN  IF fileName = RequestGql THEN << [test EXCEPT !.Request = fullPath] >>
        ELSE IF fileName = ResponseJson THEN << [test EXCEPT !.Response = fullPath] >>
        ELSE IF fileName = VariablesJson THEN << [test EXCEPT !.Variables = fullPath] >>
        ELSE IF fileName = TransformJq THEN << [test EXCEPT !.Transform = fullPath] >>
        ELSE << >>

\* mergeTest returning src
mergeTestLastWins(dst, src) == src

mergeTest(dst, src) ==
  [dst EXCEPT !.Request   = IF src.Request # << >> THEN src.Request ELSE @,
              !.Response  = IF src.Response # << >> THEN src.Response ELSE @,
              !.Variables = IF src.Variables # << >> THEN src.Variables ELSE @,
              !.Transform = IF src.Transform # << >> THEN src.Transform ELSE @]

(***************************************************************************)
(* DiscoverTests: the callback of the walk, then the pruning loop.         *)
(***************************************************************************)
\* IsSequenced without the test of the sequence number
IsSequencedAlways(base) == TRUE

\* suite.Base.Seq >= 0: the suite is entered in its parent's maps
IsSequenced(base) == base.Seq >= 0

\* IsPruned without the test of the child map
IsPrunedWithoutBase(suite) == suite.Base = << >>

\* the suites the loop after the walk deletes
IsPruned(suite) == suite.Base = << >> /\ DOMAIN suite.Tests = {}

\* the callback returns an error: the suite of the file, or its parent, is
\* not in the map
WalkFnFails(s, test) ==
  \/ test.Dir \notin DOMAIN s
  \/ test.Dir # << >> /\ getParentPath(test.Dir) \notin DOMAIN s

\* the callback on a test file whose suite and parent exist
AddTestFile(s, test) ==
  LET suite      == s[test.Dir]
      isNew      == suite.Base = << >>
      base       == IF isNew THEN test ELSE mergeTest(suite.Base[1], test)
      parentPath == getParentPath(suite.Path)
      linked     == suite.Path # << >> /\ IsSequenced(base)
      suite1     == [suite EXCEPT !.Base = <<base>>,
                                  !.refs = IF linked /\ isNew THEN @ + 1 ELSE @]
  IN  IF suite.Path = << >> THEN [s EXCEPT ![test.Dir] = suite1]
      ELSE LET parent  == s[parentPath]
               parent1 == [parent EXCEPT
                             !.refs     = IF isNew THEN @ + 1 ELSE @,
                             !.Tests    = IF linked THEN MapPut(@, test.Name, suite.Path) ELSE @,
                             !.Children = IF linked THEN MapPut(@, test.Name, suite.Path) ELSE @]
           IN  [s EXCEPT ![parentPath] = parent1, ![test.Dir] = suite1]

NoCall == [op |-> "none", path |-> << >>, maxSeq |-> -1]

\* a SuiteResult with nothing counted
NewSuiteResult == [Passed |-> 0, Failed |-> 0, Skipped |-> 0, Results |-> << >>]

\* main before its loop over the suite paths: failFast is the --fail-fast
\* flag, started the number of RunSuite calls made, tests the rest of the
\* list RunSuite ranges over, result the SuiteResult it fills
NewRunner(failFast) ==
  [failFast     |-> failFast,
   phase        |-> "main",
   started      |-> 0,
   tests        |-> << >>,
   result       |-> NewSuiteResult,
   totalPassed  |-> 0,
   totalFailed  |-> 0,
   totalSkipped |-> 0,
   exitCode     |-> 0]

Init ==
  /\ fs \in Trees
  /\ todo = Walk(fs, << >>)
  /\ suites = << >>
  /\ pc = "walk"
  /\ call = NoCall
  /\ ret = << >>
  /\ rn = NewRunner(FALSE)

\* the callback returns an error on entry e
WalkFnError(s, e) ==
  LET parsed == parseTestFile(AbsRoot, e.path, e.isDir)
  IN  ~e.isDir /\ parsed # << >> /\ WalkFnFails(s, parsed[1])

\* the map after the callback has returned nil on entry e
WalkFnResult(s, e) ==
  LET relPath == SubSeq(e.path, Len(AbsRoot) + 1, Len(e.path))
      parsed  == parseTestFile(AbsRoot, e.path, e.isDir)
  IN  IF e.isDir THEN MapPut(s, relPath, NewSuite(relPath))
      ELSE IF parsed = << >> THEN s
      ELSE AddTestFile(s, parsed[1])

\* one call of the function handed to filepath.Walk
WalkFn ==
  /\ pc = "walk"
  /\ todo # << >>
  /\ IF WalkFnError(suites, Head(todo))
       THEN /\ pc' = "failed"
            /\ UNCHANGED suites
       ELSE /\ suites' = WalkFnResult(suites, Head(todo))
            /\ pc' = "walk"
  /\ todo' = Tail(todo)
  /\ UNCHANGED <<fs, call, ret, rn>>

\* the loop after the walk, and the return of the map
Prune ==
  /\ pc = "walk"
  /\ todo = << >>
  /\ suites' = [p \in { q \in DOMAIN suites : ~IsPruned(suites[q]) } |-> suites[p]]
  /\ pc' = "done"
  /\ UNCHANGED <<fs, todo, call, ret, rn>>

\* the map DiscoverTests returns when the callback sees the entries in
\* this order and never fails
RECURSIVE WalkAll(_, _)
WalkAll(s, entries) ==
  IF entries = << >> THEN s
  ELSE WalkAll(WalkFnResult(s, Head(entries)), Tail(entries))

DiscoverTests(tree) ==
  LET s == WalkAll(<< >>, Walk(tree, << >>))
  IN  [p \in { q \in DOMAIN s : ~IsPruned(s[q]) } |-> s[p]]

(***************************************************************************)
(* The callback under a walk that visits the entries of a directory in any *)
(* order, each directory before its own contents.                          *)
(***************************************************************************)
\* entry i of todo lies in a directory that has been visited
Visitable(i) ==
  \A j \in 1..Len(todo) :
    ~(todo[j].isDir /\ Len(todo[j].path) < Len(todo[i].path)
        /\ SubSeq(todo[i].path, 1, Len(todo[j].path)) = todo[j].path)

WalkFnAnyOrder ==
  /\ pc = "walk"
  /\ \E i \in 1..Len(todo) :
       /\ Visitable(i)
       /\ IF WalkFnError(suites, todo[i])
            THEN /\ pc' = "failed"
                 /\ UNCHANGED suites
            ELSE /\ suites' = WalkFnResult(suites, todo[i])
                 /\ pc' = "walk"
       /\ todo' = SubSeq(todo, 1, i - 1) \o SubSeq(todo, i + 1, Len(todo))
  /\ UNCHANGED <<fs, call, ret, rn>>

\* the trees of the any-order walks: sequenced and unsequenced names, and
\* directories with no, one and three fixture files
AnyOrderDirNames == { <<"1","_","a">>, <<"2","_","c">>, <<"x">> }

AnyOrderFileSets == { {}, {RequestGql}, {RequestGql, ResponseJson, VariablesJson} }

RECURSIVE AnyOrderDirSets(_)
AnyOrderDirSets(n) ==
  IF n = 0 THEN { { << >> } }
  ELSE LET prev == AnyOrderDirSets(n - 1)
       IN  prev \cup
           UNION { { D \cup {Append(p, nm)} : p \in D, nm \in AnyOrderDirNames } :
                   D \in prev }

AnyOrderTrees == UNION { [D -> AnyOrderFileSets] : D \in AnyOrderDirSets(MaxDirs) }

InitAnyOrder ==
  /\ fs \in AnyOrderTrees
  /\ todo = Walk(fs, << >>)
  /\ suites = << >>
  /\ pc = "walk"
  /\ call = NoCall
  /\ ret = << >>
  /\ rn = NewRunner(FALSE)

NextAnyOrder == WalkFnAnyOrder \/ Prune

SpecAnyOrder == InitAnyOrder /\ [][NextAnyOrder]_vars

(***************************************************************************)
(* The ordering: run, runWithVisited, GetOrderedTests, RunnableSuitePaths. *)
(***************************************************************************)
\* ChildLess with the comparison of two sequence numbers turned around
ChildLessDescending(ti, tj) ==
  IF ti.Seq >= 0 /\ tj.Seq >= 0 THEN ti.Seq > tj.Seq
  ELSE IF ti.Seq >= 0 THEN TRUE
  ELSE IF tj.Seq >= 0 THEN FALSE
  ELSE StrLess(ti.Name, tj.Name)

\* the less function handed to sort.Slice
ChildLess(ti, tj) ==
  IF ti.Seq >= 0 /\ tj.Seq >= 0 THEN ti.Seq < tj.Seq
  ELSE IF ti.Seq >= 0 THEN TRUE
  ELSE IF tj.Seq >= 0 THEN FALSE
  ELSE StrLess(ti.Name, tj.Name)

\* sort.Slice is not stable and its input comes from ranging over a map, so
\* the results are all the arrangements of T that less calls sorted
RECURSIVE SortSlice(_)
SortSlice(T) ==
  IF T = {} THEN { << >> }
  ELSE UNION { { <<m>> \o r : r \in SortSlice(T \ {m}) } :
               m \in { x \in T : \A y \in T : ~ChildLess(y, x) } }

\* ExceedsLimit with the limit itself left out
ExceedsLimitInclusive(seq, maxSeq) == maxSeq >= 0 /\ seq >= 0 /\ seq >= maxSeq

\* a child test left out because of the maxSeq limit
ExceedsLimit(seq, maxSeq) == maxSeq >= 0 /\ seq >= 0 /\ seq > maxSeq

\* the child tests runWithVisited collects for a suite
ChildTests(s, suite, maxSeq) ==
  { s[suite.Tests[k]].Base[1] :
      k \in { n \in DOMAIN suite.Tests :
                LET childPath == suite.Tests[n]
                IN  /\ childPath \in DOMAIN s
                    /\ s[childPath].Base # << >>
                    /\ IsValid(s[childPath].Base[1])
                    /\ ~ExceedsLimit(s[childPath].Base[1].Seq, maxSeq) } }

\* the part of runWithVisited after the call for the parent; st is the list
\* fn has built and the visited map
ExpandSuite(s, suitePath, maxSeq, st) ==
  LET suite == s[suitePath]
      base  == IF suite.Base # << >> /\ IsValid(suite.Base[1])
                 THEN << suite.Base[1] >> ELSE << >>
  IN  { [tests   |-> st.tests \o base \o sorted,
         visited |-> st.visited \cup {suitePath}] :
          sorted \in SortSlice(ChildTests(s, suite, maxSeq)) }

\* the states runWithVisited can leave behind
RECURSIVE runWithVisited(_, _, _, _)
runWithVisited(s, suitePath, maxSeq, st) ==
  IF suitePath \in st.visited THEN {st}
  ELSE IF suitePath \notin DOMAIN s THEN {st}
  ELSE LET parentPath  == getParentPath(suitePath)
           afterParent == IF parentPath # << >>
                            THEN runWithVisited(s, parentPath, -1, st)
                            ELSE {st}
       IN  UNION { ExpandSuite(s, suitePath, maxSeq, st1) : st1 \in afterParent }

\* the lists of tests run can hand to fn, one after the other
run(s, suitePath, maxSeq) ==
  { st.tests : st \in runWithVisited(s, suitePath, maxSeq,
                                     [tests |-> << >>, visited |-> {}]) }

\* sort.Strings on the path strings of a set of paths
RECURSIVE SortPaths(_)
SortPaths(P) ==
  IF P = {} THEN << >>
  ELSE LET m == CHOOSE x \in P :
                  \A y \in P \ {x} : StrLess(JoinPath(x), JoinPath(y))
       IN  <<m>> \o SortPaths(P \ {m})

\* the suites RunnableSuitePaths leaves out
IsAbsorbed(suite) == suite.refs > 0 /\ DOMAIN suite.Tests = {}

RunnablePaths(s) == SortPaths({ p \in DOMAIN s : ~IsAbsorbed(s[p]) })

\* the start paths the calls are made with: the directories of the tree
StartPaths == DOMAIN fs

\* GetOrderedTests taking the start suite out of the map
GetOrderedTestsConsuming(suitePath) ==
  /\ pc = "done"
  /\ ret' \in run(suites, suitePath, -1)
  /\ call' = [op |-> "GetOrderedTests", path |-> suitePath, maxSeq |-> -1]
  /\ suites' = [p \in DOMAIN suites \ {suitePath} |-> suites[p]]
  /\ UNCHANGED <<fs, todo, pc, rn>>

GetOrderedTests(suitePath) ==
  /\ pc = "done"
  /\ ret' \in run(suites, suitePath, -1)
  /\ call' = [op |-> "GetOrderedTests", path |-> suitePath, maxSeq |-> -1]
  /\ UNCHANGED <<fs, todo, suites, pc, rn>>

\* run with a limit
RunLimited(suitePath, maxSeq) ==
  /\ pc = "done"
  /\ ret' \in run(suites, suitePath, maxSeq)
  /\ call' = [op |-> "run", path |-> suitePath, maxSeq |-> maxSeq]
  /\ UNCHANGED <<fs, todo, suites, pc, rn>>

RunnableSuitePaths ==
  /\ pc = "done"
  /\ ret' = RunnablePaths(suites)
  /\ call' = [op |-> "RunnableSuitePaths", path |-> << >>, maxSeq |-> -1]
  /\ UNCHANGED <<fs, todo, suites, pc, rn>>

Next ==
  \/ WalkFn
  \/ Prune
  \/ \E p \in StartPaths : GetOrderedTests(p)
  \/ \E p \in StartPaths : \E m \in 0..MaxSeqLimit : RunLimited(p, m)
  \/ RunnableSuitePaths

Spec == Init /\ [][Next]_vars

(***************************************************************************)
(* runner.go and main: RunSuite discovers the forest of a suite path and   *)
(* runs the tests GetOrderedTests("") returns, one RunTest call after the  *)
(* other; main calls RunSuite for each suite path of the command line and  *)
(* adds the counts up.                                                     *)
(***************************************************************************)
\* the suite paths of the command line: the suite directory, named twice
SuitePaths == << AbsRoot, AbsRoot >>

\* collectAllTests: the lists GetOrderedTests("") can return
collectAllTests(s) == run(s, << >>, -1)

\* RunTest: the Result of a test, passed or not as the server answers
RunTest(test, passed) == [Test |-> test, Passed |-> passed]

\* BreaksLoop with the test of the result inverted
BreaksLoopOnPass(failFast, testResult) == testResult.Passed /\ failFast

\* RunSuite leaves its loop after a failed test
BreaksLoop(failFast, testResult) == ~testResult.Passed /\ failFast

\* main leaves its loop over the suite paths
ExitsEarly(failFast, result) == failFast /\ result.Failed > 0

InitRun ==
  /\ fs \in Trees
  /\ todo = << >>
  /\ suites = << >>
  /\ pc = "done"
  /\ call = NoCall
  /\ ret = << >>
  /\ rn \in { NewRunner(f) : f \in BOOLEAN }

\* RunSuite up to its loop: DiscoverTests and collectAllTests
RunSuiteStart ==
  /\ rn.phase = "main"
  /\ rn.started < Len(SuitePaths)
  /\ suites' = DiscoverTests(fs)
  /\ \E tests \in collectAllTests(suites') :
        rn' = [rn EXCEPT !.started = @ + 1,
                         !.tests   = tests,
                         !.result  = NewSuiteResult,
                         !.phase   = IF tests = << >> THEN "return" ELSE "suite"]
  /\ UNCHANGED <<fs, todo, pc, call, ret>>

\* one iteration of RunSuite's loop over the tests
RunSuiteTest ==
  /\ rn.phase = "suite"
  /\ LET test == Head(rn.tests)
         rest == Tail(rn.tests)
     IN  IF ~IsValid(test)
           THEN rn' = [rn EXCEPT !.result.Skipped = @ + 1,
                                 !.tests = rest,
                                 !.phase = IF rest = << >> THEN "return" ELSE "suite"]
           ELSE \E passed \in BOOLEAN :
                  LET testResult == RunTest(test, passed)
                  IN  rn' = [rn EXCEPT
                               !.result.Results = Append(@, testResult),
                               !.result.Passed  = IF passed THEN @ + 1 ELSE @,
                               !.result.Failed  = IF passed THEN @ ELSE @ + 1,
                               !.tests = rest,
                               !.phase = IF \/ rest = << >>
                                            \/ BreaksLoop(rn.failFast, testResult)
                                           THEN "return" ELSE "suite"]
  /\ UNCHANGED <<fs, todo, suites, pc, call, ret>>

\* RunSuite returns its result and main adds it to the totals
RunSuiteReturn ==
  /\ rn.phase = "return"
  /\ rn' = [rn EXCEPT
              !.totalPassed  = @ + rn.result.Passed,
              !.totalFailed  = @ + rn.result.Failed,
              !.totalSkipped = @ + rn.result.Skipped,
              !.phase = IF \/ ExitsEarly(rn.failFast, rn.result)
                           \/ rn.started = Len(SuitePaths)
                          THEN "summary" ELSE "main"]
  /\ UNCHANGED <<fs, todo, suites, pc, call, ret>>

\* main prints the totals and exits
Summary ==
  /\ rn.phase = "summary"
  /\ rn' = [rn EXCEPT !.phase = "exit",
                      !.exitCode = IF rn.totalFailed > 0 THEN 1 ELSE 0]
  /\ UNCHANGED <<fs, todo, suites, pc, call, ret>>

NextRun == RunSuiteStart \/ RunSuiteTest \/ RunSuiteReturn \/ Summary

SpecRun == InitRun /\ [][NextRun]_vars

(***************************************************************************)
(* Vocabulary of the properties, in terms of the directory tree fs, the    *)
(* forest suites and the latest call and its result.                       *)
(***************************************************************************)
Range(f) == { f[x] : x \in DOMAIN f }

FixtureNames == {RequestGql, ResponseJson, VariablesJson, TransformJq}

\* a directory that is named SKIP..., or lies below one
Excluded(d) == \E i \in 1..Len(d) : HasPrefix(d[i], SkipMarker)

\* a is a proper ancestor directory of d
IsAncestor(a, d) == Len(a) < Len(d) /\ SubSeq(d, 1, Len(a)) = a

\* d is a child directory of p
IsChildDir(d, p) == Len(d) = Len(p) + 1 /\ SubSeq(d, 1, Len(p)) = p

\* a directory name of the form <digits>_<rest>
HasSeqPrefix(name) ==
  \E i \in 2..Len(name) :
    name[i] = "_" /\ \A j \in 1..(i - 1) : name[j] \in Digits

\* the directory holds both required fixtures and is not excluded
HoldsValidFixtures(d) ==
  ~Excluded(d) /\ RequestGql \in fs[d] /\ ResponseJson \in fs[d]

\* the directory holds a fixture file and is not excluded
HoldsFixture(d) == ~Excluded(d) /\ fs[d] \cap FixtureNames # {}

\* the node of d has a valid base case
HasValidBase(d) ==
  /\ d \in DOMAIN suites /\ suites[d].Base # << >>
  /\ suites[d].Base[1].Request # << >> /\ suites[d].Base[1].Response # << >>

\* d is stored in the child map of its parent
Registered(d) ==
  /\ d # << >>
  /\ getParentPath(d) \in DOMAIN suites
  /\ d \in Range(suites[getParentPath(d)].Tests)

\* the registered children of p with a valid base case
RegisteredValid(p) == { d \in Range(suites[p].Tests) : HasValidBase(d) }

\* the latest call is a finished ordering call
Ordered == pc = "done" /\ call.op \in {"GetOrderedTests", "run"}

\* where the result of the ordering call has the case of directory d
Positions(d) == { i \in 1..Len(ret) : ret[i].Dir = d }

Emitted(d) == Positions(d) # {}

\* every case of a comes before every case of b
AllBefore(a, b) == \A i \in Positions(a), j \in Positions(b) : i < j

(***************************************************************************)
(* C1: in the ordering started at the root, every non-excluded directory   *)
(* holding request.gql and response.json has exactly one case, after the   *)
(* cases of its ancestors and before those of its descendants.             *)
(* The code emits the root's case and the root's registered children only. *)
(***************************************************************************)
C1_RootOrderingCoversTree ==
  (pc = "done" /\ call.op = "GetOrderedTests" /\ call.path = << >>) =>
    \A d \in DOMAIN fs :
      HoldsValidFixtures(d) =>
        /\ Cardinality(Positions(d)) = 1
        /\ \A a \in DOMAIN fs :
             (IsAncestor(a, d) /\ HoldsValidFixtures(a)) => AllBefore(a, d)

(***************************************************************************)
(* C2: two valid registered children of the same parent with tokens        *)
(* t1 < t2 are both emitted by the ordering of the parent, the one with t1 *)
(* strictly before the one with t2.                                        *)
(***************************************************************************)
C2_SequencedSiblingsInTokenOrder ==
  (pc = "done" /\ call.op = "GetOrderedTests" /\ call.path \in DOMAIN suites) =>
    \A c1, c2 \in RegisteredValid(call.path) :
      suites[c1].Base[1].Seq < suites[c2].Base[1].Seq =>
        Emitted(c1) /\ Emitted(c2) /\ AllBefore(c1, c2)

C2_Witness ==
  /\ pc = "done" /\ call.op = "GetOrderedTests" /\ call.path \in DOMAIN suites
  /\ \E c1, c2 \in RegisteredValid(call.path) :
       /\ suites[c1].Base[1].Seq < suites[c2].Base[1].Seq
       /\ Emitted(c1) /\ Emitted(c2)

(***************************************************************************)
(* C3: the ordering of a parent emits every valid child directory without  *)
(* a sequence prefix, after all sequenced children, the unsequenced ones   *)
(* in ascending order of their names.                                      *)
(* The code never enters an unsequenced child in the parent's maps.        *)
(***************************************************************************)
C3_UnsequencedChildrenEmittedLast ==
  (pc = "done" /\ call.op = "GetOrderedTests" /\ call.path \in DOMAIN suites) =>
    LET kids  == { d \in DOMAIN suites : IsChildDir(d, call.path) /\ HasValidBase(d) }
        unseq == { d \in kids : ~HasSeqPrefix(d[Len(d)]) }
    IN  \A d \in unseq :
          /\ Emitted(d)
          /\ \A e \in kids \ unseq : AllBefore(e, d)
          /\ \A e \in unseq : StrLess(e[Len(e)], d[Len(d)]) => AllBefore(e, d)

(***************************************************************************)
(* C4: GetOrderedTests called again with the same start path on the        *)
(* unchanged forest returns the same sequence, also when two siblings      *)
(* carry the same token.                                                   *)
(* The children come from ranging over a map and sort.Slice is not stable. *)
(***************************************************************************)
C4_OrderingDeterministic ==
  [][(/\ pc = "done"
      /\ call.op = "GetOrderedTests" /\ call'.op = "GetOrderedTests"
      /\ call'.path = call.path
      /\ suites' = suites) => ret' = ret]_vars

(***************************************************************************)
(* C5: the returned forest has no node for a directory named SKIP... nor   *)
(* for a directory below one, and no file below one is in a base case.     *)
(***************************************************************************)
BaseFiles(t) == {t.Request, t.Response, t.Variables, t.Transform} \ {<< >>}

C5_SkipSubtreeAbsent ==
  pc = "done" =>
    /\ \A d \in DOMAIN fs : Excluded(d) => d \notin DOMAIN suites
    /\ \A p \in DOMAIN suites :
         suites[p].Base # << >> =>
           \A f \in BaseFiles(suites[p].Base[1]) :
             ~Excluded(SubSeq(f, Len(AbsRoot) + 1, Len(f) - 1))

C5_Witness ==
  /\ pc = "done"
  /\ \E d \in DOMAIN fs :
       /\ Len(d) = 2 /\ HasPrefix(d[1], SkipMarker) /\ HasSeqPrefix(d[2])
       /\ RequestGql \in fs[d] /\ RequestGql \in fs[<<d[1]>>]

(***************************************************************************)
(* C6: RunnableSuitePaths leaves out a node of the forest exactly when the *)
(* node is stored in its parent's child map and its own child map is       *)
(* empty.                                                                  *)
(* The walk also counts, in refs of the parent, every child directory that *)
(* gets a base case, so a parent of unsequenced children is left out too.  *)
(***************************************************************************)
C6_RunnableOmitsExactlyAbsorbedLeaves ==
  (pc = "done" /\ call.op = "RunnableSuitePaths") =>
    \A p \in DOMAIN suites :
      (p \notin Range(ret)) <=> (Registered(p) /\ DOMAIN suites[p].Tests = {})

(***************************************************************************)
(* C7: the root path is among the runnable paths (stated for the forests    *)
(* that hold a root node).                                                 *)
(* refs of the root grows with every child directory that gets a base case.*)
(***************************************************************************)
C7_RootAlwaysRunnable ==
  (pc = "done" /\ call.op = "RunnableSuitePaths" /\ << >> \in DOMAIN suites) =>
    << >> \in Range(ret)

C9_OnlyValidCasesEmitted ==
  pc = "done" =>
    /\ Ordered => \A i \in 1..Len(ret) :
                    ret[i].Request # << >> /\ ret[i].Response # << >>
    /\ \A d \in DOMAIN fs :
         (HoldsFixture(d) /\ ~HoldsValidFixtures(d)) =>
           /\ d \in DOMAIN suites
           /\ suites[d].Base # << >>
           /\ (suites[d].Base[1].Request = << >> \/ suites[d].Base[1].Response = << >>)
           /\ Ordered => ~Emitted(d)

C9_Witness ==
  /\ Ordered /\ ret # << >>
  /\ \E d \in DOMAIN fs :
       /\ HoldsFixture(d) /\ ~HoldsValidFixtures(d)
       /\ Registered(d) /\ getParentPath(d) = call.path

(***************************************************************************)
(* C10: run on start path p with a limit maxSeq >= 0 emits, of the         *)
(* children of p, exactly the registered valid ones whose token is at most *)
(* maxSeq; every ancestor of p that is expanded emits all its registered   *)
(* valid children; with maxSeq = -1 the limit leaves out no child.         *)
(***************************************************************************)
\* the ancestors run expands: the chain of non-root parents up to the first
\* one that is not in the forest
ExpandedAncestors(p) ==
  { a \in DOMAIN suites :
      /\ a # << >> /\ IsAncestor(a, p)
      /\ \A n \in Len(a)..(Len(p) - 1) : SubSeq(p, 1, n) \in DOMAIN suites }

C10_AncestorReached ==
  /\ Ordered /\ call.op = "run" /\ call.path \in DOMAIN suites
  /\ \E a \in ExpandedAncestors(call.path) :
       \E d \in RegisteredValid(a) : suites[d].Base[1].Seq > call.maxSeq /\ Emitted(d)

(***************************************************************************)
(* C13: no test case appears twice in the result of one GetOrderedTests    *)
(* call, whatever the start path.                                          *)
(* A start path that its non-root parent has registered is emitted by the  *)
(* parent as a child and again as the base case of the start suite.        *)
(***************************************************************************)
C13_NoCaseEmittedTwice ==
  (pc = "done" /\ call.op = "GetOrderedTests") =>
    \A i, j \in 1..Len(ret) : ret[i].Dir = ret[j].Dir => i = j

(***************************************************************************)
(* C14: for a start path p below the root, every ancestor of p, the root   *)
(* included, is expanded first: the valid base case of each ancestor and   *)
(* its children are emitted before the base case of p, outermost first.    *)
(* The code does not expand a parent whose path is "" (the root), and      *)
(* stops at a parent that was pruned.                                      *)
(***************************************************************************)
FirstPosition(d) == CHOOSE i \in Positions(d) : \A j \in Positions(d) : i <= j

LastPosition(d) == CHOOSE i \in Positions(d) : \A j \in Positions(d) : i >= j

C14_AncestorsExpandedFirst ==
  (pc = "done" /\ call.op = "GetOrderedTests"
     /\ call.path # << >> /\ call.path \in DOMAIN suites) =>
    \A a \in DOMAIN suites :
      IsAncestor(a, call.path) =>
        /\ HasValidBase(a) =>
             /\ Emitted(a)
             /\ HasValidBase(call.path) =>
                  FirstPosition(a) < LastPosition(call.path)
             /\ \A b \in DOMAIN suites :
                  (IsAncestor(b, a) /\ HasValidBase(b)) =>
                    (Emitted(b) /\ FirstPosition(b) < FirstPosition(a))
        /\ \A c \in RegisteredValid(a) : Emitted(c)

(***************************************************************************)
(* C15: after DiscoverTests the reference count of a node is 1 if the node *)
(* is stored in the child map of its parent and 0 otherwise.               *)
(* The walk also adds one to the count of the parent for every child       *)
(* directory that gets a base case (see C6).                               *)
(***************************************************************************)
C15_RefsCountsRegistration ==
  pc = "done" =>
    \A p \in DOMAIN suites :
      suites[p].refs = IF Registered(p) THEN 1 ELSE 0

(***************************************************************************)
(* C16: every node of the returned forest has a base case or a child in    *)
(* its child map; every directory with a base case or a registered child   *)
(* is kept; every path in a child map is a node of the forest with a base  *)
(* case.                                                                   *)
(***************************************************************************)
\* the child directories of d that the walk registers with d
SequencedChildDirs(d) ==
  { c \in DOMAIN fs :
      IsChildDir(c, d) /\ HoldsFixture(c) /\ HasSeqPrefix(c[Len(c)]) }

C16_PrunedExactlyEmptyNodes ==
  pc = "done" =>
    /\ \A p \in DOMAIN suites :
         /\ suites[p].Base # << >> \/ DOMAIN suites[p].Tests # {}
         /\ \A c \in Range(suites[p].Tests) :
              c \in DOMAIN suites /\ suites[c].Base # << >>
    /\ \A d \in DOMAIN fs :
         (HoldsFixture(d) \/ SequencedChildDirs(d) # {}) =>
           /\ d \in DOMAIN suites
           /\ suites[d].Base # << >> <=> HoldsFixture(d)
           /\ Range(suites[d].Tests) = SequencedChildDirs(d)
    /\ \A d \in DOMAIN fs :
         (~HoldsFixture(d) /\ SequencedChildDirs(d) = {}) => d \notin DOMAIN suites

C16_Witness ==
  /\ pc = "done"
  /\ \E p \in DOMAIN suites : suites[p].Base = << >> /\ DOMAIN suites[p].Tests # {}
  /\ \E d \in DOMAIN fs : d \notin DOMAIN suites /\ ~Excluded(d)

(***************************************************************************)
(* C18 as claimed: the Name of a case in a directory <digits>_<rest> is    *)
(* <rest>, and so is its key in the child map of the parent; without such  *)
(* a prefix the Name is the directory name.                                *)
(* The code never strips the prefix.                                       *)
(***************************************************************************)
C18_NameIsStripped ==
  pc = "done" =>
    \A p \in DOMAIN suites :
      (p # << >> /\ suites[p].Base # << >>) =>
        LET dirName == p[Len(p)]
            want    == IF HasSeqPrefix(dirName) THEN AfterUnderscore(dirName) ELSE dirName
        IN  /\ suites[p].Base[1].Name = want
            /\ Registered(p) =>
                 (/\ want \in DOMAIN suites[getParentPath(p)].Tests
                  /\ suites[getParentPath(p)].Tests[want] = p)

(***************************************************************************)
(* C18 amended: the Name of every discovered case is the base name of its  *)
(* directory unchanged, the <digits>_ prefix included (the empty string    *)
(* at the root), and that name is its key in the child map of the parent.  *)
(***************************************************************************)
C18_NameIsDirectoryName ==
  pc = "done" =>
    \A p \in DOMAIN suites :
      suites[p].Base # << >> =>
        LET dirName == IF p = << >> THEN << >> ELSE p[Len(p)]
        IN  /\ suites[p].Base[1].Name = dirName
            /\ Registered(p) =>
                 (/\ dirName \in DOMAIN suites[getParentPath(p)].Tests
                  /\ suites[getParentPath(p)].Tests[dirName] = p)

C18_Witness ==
  /\ pc = "done"
  /\ \E p \in DOMAIN suites :
       /\ Registered(p) /\ HasSeqPrefix(p[Len(p)])
       /\ suites[p].Base[1].Name # AfterUnderscore(p[Len(p)])

(***************************************************************************)
(* C19: once DiscoverTests has returned, no GetOrderedTests, run or        *)
(* RunnableSuitePaths call changes the forest.                             *)
(***************************************************************************)
C19_CallsLeaveForestUnchanged ==
  [][pc = "done" => (suites' = suites /\ pc' = "done")]_vars

C19_Witness ==
  /\ pc = "done" /\ call.op = "GetOrderedTests" /\ call.path # << >>
  /\ Len(ret) >= 2

(***************************************************************************)
(* C17: the forest DiscoverTests returns (base case fields, sequence       *)
(* token, child map and reference count of every node) is the same for     *)
(* every order in which the entries of each directory are visited, every   *)
(* directory being visited before its contents: it is the forest of the    *)
(* walk in name order.                                                     *)
(***************************************************************************)
C17_ForestIndependentOfVisitOrder ==
  /\ pc # "failed"
  /\ pc = "done" => suites = DiscoverTests(fs)

\* a response has been merged before the request of the same directory, and
\* a child was registered before its parent got its base case
C17_Witness ==
  /\ pc = "walk"
  /\ \E p \in DOMAIN suites :
       /\ suites[p].Base # << >>
       /\ suites[p].Base[1].Response # << >> /\ suites[p].Base[1].Request = << >>
       /\ RequestGql \in fs[p]
  /\ \E q \in DOMAIN suites : suites[q].Base = << >> /\ DOMAIN suites[q].Tests # {}
                                /\ HoldsFixture(q)

(***************************************************************************)
(* C11: when RunSuite has gone through all the tests of a suite, it has    *)
(* called RunTest for no case that lacks its request or its response file, *)
(* and SuiteResult.Skipped is the number of the cases of the forest        *)
(* that lack one.                                                          *)
(***************************************************************************)
InvalidCases ==
  { p \in DOMAIN suites :
      /\ suites[p].Base # << >>
      /\ (suites[p].Base[1].Request = << >> \/ suites[p].Base[1].Response = << >>) }

C11_SkippedCountsInvalidCases ==
  (rn.phase = "return" /\ ~rn.failFast) =>
    /\ \A i \in 1..Len(rn.result.Results) :
         /\ rn.result.Results[i].Test.Request # << >>
         /\ rn.result.Results[i].Test.Response # << >>
    /\ rn.result.Skipped = Cardinality(InvalidCases)

(***************************************************************************)
(* C12: with --fail-fast, once a failed test is counted, no step calls     *)
(* RunTest again and no step starts another RunSuite.                      *)
(***************************************************************************)
FailureCounted == rn.result.Failed > 0 \/ rn.totalFailed > 0

C12_FailFastStopsAfterFirstFailure ==
  [][ (rn.failFast /\ FailureCounted) =>
        /\ rn'.result.Results = rn.result.Results
        /\ rn'.started = rn.started ]_vars

\* main has exited after a failure with tests of the suite and suite paths left
C12_Witness ==
  /\ rn.failFast
  /\ rn.phase = "exit"
  /\ rn.totalFailed = 1
  /\ rn.tests # << >>
  /\ rn.started < Len(SuitePaths)
  /\ rn.exitCode = 1

====
